---- MODULE Spec2Model ----
(***************************************************************************)
(* hex-spiral: single-coordinate spiral addressing of a flat-topped hex    *)
(* grid.  The library is a set of pure functions (src/position.rs,         *)
(* src/convert.rs, src/point.rs) plus one small iterator                   *)
(* (DirectionalNeighborIter).                                              *)
(*                                                                         *)
(* Representation choices                                                  *)
(*   [Pos; N] arrays  -> sequences, array index d is sequence index d + 1  *)
(*   Cube             -> record [q, r, s]                                  *)
(*   Result<usize,&str> -> record [ok, value, err]                         *)
(*   f32              -> every f32 value that occurs in convert.rs is a    *)
(*                       multiple of 0.5 of small magnitude; it is kept    *)
(*                       as the integer 2*v ("halves").  The only inexact  *)
(*                       f32 operation is the usize -> f32 cast, which is  *)
(*                       modelled by ToF32 (round to nearest, ties even,   *)
(*                       24 significant bits).                             *)
(***************************************************************************)
EXTENDS Integers, Sequences, FiniteSets, TLC

(***************************************************************************)
(* Bounds of the model                                                     *)
(***************************************************************************)
\* positions 0 .. ring_offset(MaxRing + 1) - 1 are the inputs of the calls
MaxRing == 4
\* cube components of the inputs of cube_to_spiral range over -MaxCoord..MaxCoord
MaxCoord == 3
\* cap of the unbounded (0..) search of ring()
RingSearchLimit == 4000
\* number of next() calls made on one DirectionalNeighborIter
MaxSteps == 6
\* the iterator is started on positions of rings 0..MaxStartRing
MaxStartRing == 3
\* are_grouped is called on lists of at most MaxLen positions out of 0..MaxGroupPos
MaxLen == 3
MaxGroupPos == 8
\* half-width of the window of positions around 2^24 used by SpecBig
BigWindow == 30

(***************************************************************************)
(* Program constants                                                       *)
(***************************************************************************)
\* number of significant bits of an f32 (the casts `as f32` in convert.rs)
F32Bits == 24
\* `let p = 6.0;` in growing_trunc_tri
BasePeriod == 6

(***************************************************************************)
(* Arithmetic helpers                                                      *)
(***************************************************************************)
Abs(a) == IF a < 0 THEN -a ELSE a

Max2(a, b) == IF a < b THEN b ELSE a

RECURSIVE Pow2(_)
Pow2(n) == IF n = 0 THEN 1 ELSE 2 * Pow2(n - 1)

\* Rust's `%` on numbers: the remainder has the sign of the dividend
Rem(a, b) == IF a >= 0 THEN a % b ELSE -((-a) % b)

\* f32::signum on a nonzero or positive-zero value
Signum(a) == IF a < 0 THEN -1 ELSE 1

\* `as i32` of an f32 given in halves: truncation toward zero
TruncHalves(h) == IF h >= 0 THEN h \div 2 ELSE -((-h) \div 2)

\* the unit in the last place of the f32 nearest to the natural number n
RECURSIVE Ulp(_)
Ulp(n) == IF n < Pow2(F32Bits) THEN 1 ELSE 2 * Ulp(n \div 2)

\* `n as f32` for a usize n: round to nearest, ties to even
ToF32(n) ==
    LET u == Ulp(n)
        m == n \div u
        rest == n % u
    IN  IF 2 * rest > u \/ (2 * rest = u /\ m % 2 = 1)
        THEN (m + 1) * u
        ELSE m * u

(***************************************************************************)
(* src/position.rs: ring decomposition                                     *)
(***************************************************************************)
ring_offset(ring) == IF ring = 0 THEN 0 ELSE 3 * (ring - 1) * ring + 1

\* faulty variant: `pos <= offset` in the search of ring()
ring_inclusive(pos) ==
    (CHOOSE i \in 0..RingSearchLimit :
        /\ pos <= ring_offset(i)
        /\ (i = 0 \/ ~(pos <= ring_offset(i - 1)))) - 1

\* (0..).map(ring_offset).position(|offset| pos < offset).unwrap() - 1:
\* the first index whose offset exceeds pos, minus one.  The search is capped
\* at RingSearchLimit.
ring(pos) ==
    (CHOOSE i \in 0..RingSearchLimit :
        /\ pos < ring_offset(i)
        /\ (i = 0 \/ ~(pos < ring_offset(i - 1)))) - 1

\* faulty variant: the candidates are taken from (1..6), the start of the ring
\* is no tip and the start of the next ring is
is_at_ring_tip_shifted(pos) ==
    LET r == ring(pos)
        off == ring_offset(r)
    IN  \E n \in 1..6 : pos = off + n * r

is_at_ring_tip(pos) ==
    LET r == ring(pos)
        off == ring_offset(r)
    IN  \E n \in 0..5 : pos = off + n * r

\* integer division by ring: only called with ring(pos) >= 1
ring_edge_index(pos) ==
    LET r == ring(pos)
    IN  (pos - ring_offset(r)) \div r

\* faulty variant: the first position of a ring does not wrap to the last
ring_neighboring_positions_nowrap(pos) ==
    LET r == ring(pos)
    IN  IF pos = ring_offset(r + 1) - 1
        THEN <<pos - 1, ring_offset(r)>>
        ELSE <<pos - 1, pos + 1>>

ring_neighboring_positions(pos) ==
    LET r == ring(pos)
    IN  IF pos = ring_offset(r)
        THEN <<ring_offset(r + 1) - 1, pos + 1>>
        ELSE IF pos = ring_offset(r + 1) - 1
             THEN <<pos - 1, ring_offset(r)>>
             ELSE <<pos - 1, pos + 1>>

\* faulty variant: the array is rotated left
rotate_left(a, k) == [i \in 1..6 |-> a[((i - 1 + k) % 6) + 1]]

\* [T; 6]::rotate_right(k)
rotate_right(a, k) == [i \in 1..6 |-> a[((i - 1 - k) % 6) + 1]]

\* the `if is_at_ring_tip(pos)` branch of neighboring_positions:
\* 1 neighbor from the lower ring, 3 from the upper ring, 2 from the same ring
tip_neighbors(pos, r, edge_index) ==
    LET lower_neighbor == ring_offset(r - 1) + (r - 1) * edge_index
        ring_neighbors == ring_neighboring_positions(pos)
        upper_tip_neighbor ==
          IF pos = ring_offset(r + 1) - 1
          THEN ring_offset(r + 2) - 2
          ELSE ring_offset(r + 1) + (r + 1) * edge_index
        upper_tip_neighbors == ring_neighboring_positions(upper_tip_neighbor)
    IN  << upper_tip_neighbor,
           upper_tip_neighbors[2],
           ring_neighbors[2],
           lower_neighbor,
           ring_neighbors[1],
           upper_tip_neighbors[1] >>

\* faulty variant: the lower-ring pair of the last position of a ring is
\* computed like that of every other edge position
edge_neighbors_nowrap(pos, r, edge_index) ==
    LET ring_pos == pos - ring_offset(r)
        tip_offset == ring_pos - (edge_index * r)
        lower_neighbor1 == ring_offset(r - 1) + (edge_index * (r - 1)) + tip_offset - 1
        lower_neighbor2 == lower_neighbor1 + 1
        ring_neighbors == ring_neighboring_positions(pos)
        upper_neighbor1 == ring_offset(r + 1) + (edge_index * (r + 1)) + tip_offset
        upper_neighbor2 == upper_neighbor1 + 1
    IN  << upper_neighbor1,
           upper_neighbor2,
           ring_neighbors[2],
           lower_neighbor2,
           lower_neighbor1,
           ring_neighbors[1] >>

\* the else branch of neighboring_positions:
\* 2 neighbors from the lower ring, the upper ring, and the same ring
edge_neighbors(pos, r, edge_index) ==
    LET ring_pos == pos - ring_offset(r)
        tip_offset == ring_pos - (edge_index * r)
        lower_neighbor1 ==
          IF pos = ring_offset(r + 1) - 1
          THEN ring_offset(r) - 1
          ELSE ring_offset(r - 1) + (edge_index * (r - 1)) + tip_offset - 1
        lower_neighbor2 ==
          IF pos = ring_offset(r + 1) - 1
          THEN ring_offset(r - 1)
          ELSE lower_neighbor1 + 1
        ring_neighbors == ring_neighboring_positions(pos)
        upper_neighbor1 == ring_offset(r + 1) + (edge_index * (r + 1)) + tip_offset
        upper_neighbor2 == upper_neighbor1 + 1
    IN  << upper_neighbor1,
           upper_neighbor2,
           ring_neighbors[2],
           lower_neighbor2,
           lower_neighbor1,
           ring_neighbors[1] >>

neighboring_positions(pos) ==
    LET r == ring(pos)
    IN  IF r = 0
        THEN <<1, 2, 3, 4, 5, 6>>
        ELSE
          LET edge_index == ring_edge_index(pos)
              poss == IF is_at_ring_tip(pos)
                      THEN tip_neighbors(pos, r, edge_index)
                      ELSE edge_neighbors(pos, r, edge_index)
          IN  rotate_right(poss, edge_index)

are_neighbors(pos1, pos2) ==
    \E i \in 1..6 : neighboring_positions(pos1)[i] = pos2

\* precondition (assert!): Len(poss) >= 2; poss.windows(2).all(are_neighbors)
is_path_consistent(poss) ==
    \A i \in 1..(Len(poss) - 1) : are_neighbors(poss[i], poss[i + 1])

\* crepe: the @input relation Position, a set of positions
PositionRel(poss) == {poss[i] : i \in 1..Len(poss)}

\* crepe: Neighbors(p1, p2) <- Position(p1), Position(p2), (are_neighbors(p1, p2));
NeighborsRel(position) ==
    {pair \in position \X position : are_neighbors(pair[1], pair[2])}

\* crepe: one round of
\*   Grouped(p1, p2) <- Neighbors(p1, p2);
\*   Grouped(p1, p3) <- Neighbors(p1, p2), Grouped(p2, p3), (p1 != p3);
GroupedStep(neighbors, grouped) ==
    neighbors \cup
    {<<n[1], g[2]>> : <<n, g>> \in
        {ng \in neighbors \X grouped : ng[1][2] = ng[2][1] /\ ng[1][1] # ng[2][2]}}

\* crepe: rt.run(), the least fixed point of the rules
RECURSIVE GroupedFix(_, _)
GroupedFix(neighbors, grouped) ==
    LET step == grouped \cup GroupedStep(neighbors, grouped)
    IN  IF step = grouped THEN grouped ELSE GroupedFix(neighbors, step)

\* poss.iter().permutations(2): the ordered pairs of entries at two different
\* indices of the list
Permutations2(poss) ==
    {<<poss[i], poss[j]>> : <<i, j>> \in
        {ij \in (1..Len(poss)) \X (1..Len(poss)) : ij[1] # ij[2]}}

are_grouped(poss) ==
    LET groups == GroupedFix(NeighborsRel(PositionRel(poss)), {})
    IN  \A pair \in Permutations2(poss) : pair \in groups

\* Option<Pos>
Some(x) == [some |-> TRUE, value |-> x]

\* DirectionalNeighborIter::new; assert!(dir <= 5) is the caller's obligation
DirectionalNeighborIter_new(pos, dir) == [curr_pos |-> pos, dir |-> dir]

\* faulty variant: next() yields the current position before it advances
iter_next_stale(it) ==
    LET next == neighboring_positions(it.curr_pos)[it.dir + 1]
    IN  [it |-> [it EXCEPT !.curr_pos = next], item |-> Some(it.curr_pos)]

\* DirectionalNeighborIter::next: the iterator after the call and the item
\* returned
iter_next(it) ==
    LET next == neighboring_positions(it.curr_pos)[it.dir + 1]
    IN  [it |-> [it EXCEPT !.curr_pos = next], item |-> Some(next)]

\* DirectionalNeighborIter::curr_pos
curr_pos(it) == it.curr_pos

(***************************************************************************)
(* src/convert.rs: spiral <-> cube                                         *)
(***************************************************************************)
Cube(q, r, s) == [q |-> q, r |-> r, s |-> s]

CubeDefault == Cube(0, 0, 0)

abs_largest(c) == Max2(Abs(c.q), Max2(Abs(c.r), Abs(c.s)))

component_sum(c) == c.q + c.r + c.s

\* faulty variant: the remainder `a % b` instead of the modulo
modulo_rem(a, b) == Rem(a, b)

\* ((a % b) + b) % b on halves
modulo(a, b) == Rem(Rem(a, b) + b, b)

\* faulty variant: the wave is not truncated to the amplitude c
growing_trunc_tri_untruncated(x, c, x_prime, phi) ==
    LET p == BasePeriod
        offset_x == x - x_prime
        s == 2 * offset_x - (c * (2 * phi + p)) \div 2
        p_star == 2 * c * p
        y_1 == (6 * Abs(modulo(s, p_star) - c * p)) \div p - 3 * c
    IN  TruncHalves(y_1)

\* x, c, x_prime and phi are integer-valued f32s; s, p_star and y_1 are kept
\* in halves (twice their value)
growing_trunc_tri(x, c, x_prime, phi) ==
    LET p == BasePeriod
        offset_x == x - x_prime
        s == 2 * offset_x - (c * (2 * phi + p)) \div 2
        p_star == 2 * c * p
        y_1 == (6 * Abs(modulo(s, p_star) - c * p)) \div p - 3 * c
    IN  IF Abs(y_1) > 2 * c
        THEN Signum(y_1) * c
        ELSE TruncHalves(y_1)

spiral_to_cube(x) ==
    IF x = 0
    THEN CubeDefault
    ELSE
      LET ring_index == ToF32(ring(x))
          ring_off == ToF32(ring_offset(ring_index))
          q == growing_trunc_tri(ToF32(x), ring_index, ring_off, 0)
          r == growing_trunc_tri(ToF32(x), ring_index, ring_off, 4)
          s == -q - r
      IN  Cube(q, r, s)

Ok(x) == [ok |-> TRUE, value |-> x, err |-> ""]

Err(msg) == [ok |-> FALSE, value |-> 0, err |-> msg]

cube_to_spiral(coord) ==
    IF coord = CubeDefault
    THEN Ok(0)
    ELSE IF component_sum(coord) # 0
    THEN Err("q + r + s != 0")
    ELSE
      LET ring_index == abs_largest(coord)
          ring_off == ring_offset(ring_index)
          found == {v \in ring_off..(ring_off + ring_index * 6 - 1) :
                        spiral_to_cube(v) = coord}
      IN  IF found # {}
          THEN Ok(CHOOSE v \in found : \A w \in found : v <= w)
          ELSE Err("Couldn't find a solution")

(***************************************************************************)
(* src/point.rs: geometric projection.  A point is kept as the pair of      *)
(* integer multipliers (xm, ym) that the code applies to r * cos A and      *)
(* r * sin A on top of window_center; `calls` lists the arguments of the    *)
(* recursive calls that were made, outermost first.                        *)
(***************************************************************************)
\* the `match` on the edge index (the same table at both places); ring is the
\* f32 magnitude
point_multipliers(idx, ring_f) ==
    CASE idx = 0 -> [xm |-> 0, ym |-> -2 * ring_f]
      [] idx = 1 -> [xm |-> 3 * ring_f, ym |-> -ring_f]
      [] idx = 2 -> [xm |-> 3 * ring_f, ym |-> ring_f]
      [] idx = 3 -> [xm |-> 0, ym |-> 2 * ring_f]
      [] idx = 4 -> [xm |-> -3 * ring_f, ym |-> ring_f]
      [] idx = 5 -> [xm |-> -3 * ring_f, ym |-> -ring_f]

\* `match (edge_idx + 2) % 6`
edge_direction_index(edge_idx) == (edge_idx + 2) % 6

RECURSIVE pos_to_point(_)
pos_to_point(pos) ==
    IF pos = 0
    THEN [xm |-> 0, ym |-> 0, calls |-> <<>>]
    ELSE
      LET r == ring(pos)
          edge_idx == ring_edge_index(pos)
      IN  IF is_at_ring_tip(pos)
          THEN
            LET m == point_multipliers(edge_idx, ToF32(r))
            IN  [xm |-> m.xm, ym |-> m.ym, calls |-> <<>>]
          ELSE
            LET ring_off == ring_offset(r)
                ring_pos == pos - ring_off
                tip_offset == ring_pos - edge_idx * r
                tip_pos == ring_off + edge_idx * r
                tip_point == pos_to_point(tip_pos)
                m == point_multipliers(edge_direction_index(edge_idx),
                                       ToF32(tip_offset))
            IN  [xm |-> tip_point.xm + m.xm,
                 ym |-> tip_point.ym + m.ym,
                 calls |-> <<tip_pos>> \o tip_point.calls]

(***************************************************************************)
(* Inputs of the calls                                                     *)
(***************************************************************************)
Positions == 0..(ring_offset(MaxRing + 1) - 1)

Cubes == [q : (-MaxCoord)..MaxCoord, r : (-MaxCoord)..MaxCoord, s : (-MaxCoord)..MaxCoord]

\* positions around 2^24, the first usize that `as f32` does not keep apart
\* from its successor
BigPositions == (Pow2(F32Bits) - BigWindow)..(Pow2(F32Bits) + BigWindow)

\* the ring of position 2^24 and two neighbouring cubes of that ring
BigRing == ring(Pow2(F32Bits))

BigCubes == {Cube(BigRing, r, -BigRing - r) : r \in (-95)..(-94)}

(***************************************************************************)
(* State.                                                                  *)
(*   call, arg, ret  the call made on the library ("none" before it is     *)
(*                   made), its argument and its result                    *)
(*   src_pos         history: the position whose cube was passed on to     *)
(*                   cube_to_spiral, -1 when the cube came from elsewhere  *)
(*   iter            a DirectionalNeighborIter {curr_pos, dir}             *)
(*   start           history: the arguments of DirectionalNeighborIter::new*)
(*   yielded         history: the items next() has returned, in order      *)
(***************************************************************************)
VARIABLES call, arg, ret, src_pos, iter, start, yielded

vars == <<call, arg, ret, src_pos, iter, start, yielded>>

callVars == <<call, arg, ret, src_pos>>

iterVars == <<iter, start, yielded>>

\* positions the iterator is started on
StartPositions == 0..(ring_offset(MaxStartRing + 1) - 1)

\* the lists passed to are_grouped
GroupLists == UNION {[1..n -> 0..MaxGroupPos] : n \in 0..MaxLen}

InitCalls ==
    /\ call = "none"
    /\ arg = 0
    /\ ret = 0
    /\ src_pos = -1

InitIter(P, D) ==
    \E pos \in P, dir \in D :
        /\ iter = DirectionalNeighborIter_new(pos, dir)
        /\ start = [pos |-> pos, dir |-> dir]
        /\ yielded = <<>>

Init == InitCalls /\ InitIter({0}, {0})

Ring(P) ==
    \E p \in P :
        /\ call = "none"
        /\ call' = "ring"
        /\ arg' = p
        /\ ret' = ring(p)
        /\ src_pos' = -1
        /\ UNCHANGED iterVars

NeighboringPositions(P) ==
    \E p \in P :
        /\ call = "none"
        /\ call' = "neighboring_positions"
        /\ arg' = p
        /\ ret' = neighboring_positions(p)
        /\ src_pos' = -1
        /\ UNCHANGED iterVars

IsAtRingTip(P) ==
    \E p \in P :
        /\ call = "none"
        /\ call' = "is_at_ring_tip"
        /\ arg' = p
        /\ ret' = is_at_ring_tip(p)
        /\ src_pos' = -1
        /\ UNCHANGED iterVars

AreNeighbors(P) ==
    \E pos1 \in P, pos2 \in P :
        /\ call = "none"
        /\ call' = "are_neighbors"
        /\ arg' = <<pos1, pos2>>
        /\ ret' = are_neighbors(pos1, pos2)
        /\ src_pos' = -1
        /\ UNCHANGED iterVars

SpiralToCube(P) ==
    \E x \in P :
        /\ call = "none"
        /\ call' = "spiral_to_cube"
        /\ arg' = x
        /\ ret' = spiral_to_cube(x)
        /\ src_pos' = -1
        /\ UNCHANGED iterVars

CubeToSpiral(C) ==
    \E coord \in C :
        /\ call = "none"
        /\ call' = "cube_to_spiral"
        /\ arg' = coord
        /\ ret' = cube_to_spiral(coord)
        /\ src_pos' = -1
        /\ UNCHANGED iterVars

\* cube_to_spiral(spiral_to_cube(p)): the cube returned by the previous call is
\* passed back
CubeToSpiralOfResult(P) ==
    /\ call = "spiral_to_cube"
    /\ arg \in P
    /\ call' = "cube_to_spiral"
    /\ arg' = ret
    /\ ret' = cube_to_spiral(ret)
    /\ src_pos' = arg
    /\ UNCHANGED iterVars

PosToPoint(P) ==
    \E pos \in P :
        /\ call = "none"
        /\ call' = "pos_to_point"
        /\ arg' = pos
        /\ ret' = pos_to_point(pos)
        /\ src_pos' = -1
        /\ UNCHANGED iterVars

AreGrouped(L) ==
    \E poss \in L :
        /\ call = "none"
        /\ call' = "are_grouped"
        /\ arg' = poss
        /\ ret' = are_grouped(poss)
        /\ src_pos' = -1
        /\ UNCHANGED iterVars

\* one call of next() on the iterator
IterNext ==
    /\ Len(yielded) < MaxSteps
    /\ iter' = iter_next(iter).it
    /\ yielded' = Append(yielded, iter_next(iter).item)
    /\ UNCHANGED <<start, callVars>>

Next ==
    \/ Ring(Positions)
    \/ IsAtRingTip(Positions)
    \/ NeighboringPositions(Positions)
    \/ AreNeighbors(Positions)
    \/ SpiralToCube(Positions \cup BigPositions)
    \/ CubeToSpiral(Cubes)
    \/ CubeToSpiralOfResult(Positions)
    \/ PosToPoint(Positions)

Spec == Init /\ [][Next]_vars

\* the same calls on positions and cubes of the ring that contains 2^24
NextBig ==
    \/ NeighboringPositions(BigPositions)
    \/ SpiralToCube(BigPositions)
    \/ PosToPoint(BigPositions)
    \/ CubeToSpiral(BigCubes)

SpecBig == Init /\ [][NextBig]_vars

\* are_grouped on every list of GroupLists
NextGroup == AreGrouped(GroupLists)

SpecGroup == Init /\ [][NextGroup]_vars

\* a DirectionalNeighborIter created on any start position and direction, then
\* advanced
InitWalk == InitCalls /\ InitIter(StartPositions, 0..5)

NextWalk == IterNext

SpecWalk == InitWalk /\ [][NextWalk]_vars

(***************************************************************************)
(* Properties                                                              *)
(***************************************************************************)
CubeAdd(a, b) == Cube(a.q + b.q, a.r + b.r, a.s + b.s)

\* the six cube vectors of the directions 0..5, clockwise from the top
DirectionVectors ==
    << Cube(0, -1, 1), Cube(1, -1, 0), Cube(1, 0, -1),
       Cube(0, 1, -1), Cube(-1, 1, 0), Cube(-1, 0, 1) >>

\* C1: round trip -- passing the cube that spiral_to_cube returned for a
\* position p of rings 0..MaxRing to cube_to_spiral returns Ok(p).
C1_RoundTrip ==
    (call = "cube_to_spiral" /\ src_pos >= 0) => ret = Ok(src_pos)

\* C1 witness: the round trip of position 45 (a tip of ring 4) was made.
C1_Witness ==
    call = "cube_to_spiral" /\ src_pos = 45 /\ arg = Cube(4, 0, -4) /\ ret.ok

\* C2: neighbor symmetry -- the result of are_neighbors(a, b) equals
\* are_neighbors(b, a) for all positions a, b of rings 0..MaxRing.
C2_NeighborSymmetry ==
    call = "are_neighbors" => (ret <=> are_neighbors(arg[2], arg[1]))

\* C2 witness: the end-of-ring wrap, 18 (last of ring 2) and 7 (first of ring 2)
\* were found to be neighbors.
C2_Witness ==
    call = "are_neighbors" /\ arg = <<18, 7>> /\ ret = TRUE

\* C3: for every position p and direction d, the cube of
\* neighboring_positions(p)[d] is the cube of p plus the cube of position d + 1,
\* and these six cubes are the fixed direction vectors.
C3_StraightDirections ==
    call = "neighboring_positions" =>
        \A d \in 0..5 :
            /\ spiral_to_cube(d + 1) = DirectionVectors[d + 1]
            /\ spiral_to_cube(ret[d + 1]) =
                   CubeAdd(spiral_to_cube(arg), spiral_to_cube(d + 1))

\* C4: neighbor count -- the six entries of neighboring_positions(p) are
\* pairwise distinct, none is p, and the center's are exactly 1..6 in order.
C4_NeighborCount ==
    call = "neighboring_positions" =>
        /\ Len(ret) = 6
        /\ \A i, j \in 1..6 : i # j => ret[i] # ret[j]
        /\ \A i \in 1..6 : ret[i] # arg
        /\ arg = 0 => ret = <<1, 2, 3, 4, 5, 6>>

\* C4 witness: the neighbors of 60, the last position of ring 4 (not a tip).
C4_Witness ==
    call = "neighboring_positions" /\ arg = 60 /\ ret = <<90, 37, 19, 36, 59, 89>>

C7_ErrorsOnlyForInvalidCubes ==
    call = "cube_to_spiral" =>
        /\ (ret = Err("q + r + s != 0")) <=> (arg.q + arg.r + arg.s # 0)
        /\ (arg.q + arg.r + arg.s = 0) =>
               (ret.ok /\ spiral_to_cube(ret.value) = arg)

\* C8: ring containment -- ring(p) is the one k with
\* ring_offset(k) <= p < ring_offset(k + 1), the offsets being 0 for k = 0 and
\* 3k(k-1)+1 for k >= 1.
C8_RingContainment ==
    call = "ring" =>
        \A k \in 0..(MaxRing + 3) :
            LET lo == IF k = 0 THEN 0 ELSE 3 * k * (k - 1) + 1
                hi == 3 * (k + 1) * k + 1
            IN  (lo <= arg /\ arg < hi) <=> (k = ret)

\* C8 witness: 36, the last position of ring 3, was placed on ring 3.
C8_Witness ==
    call = "ring" /\ arg = 36 /\ ret = 3

\* the positions of `within` that a chain of neighbors inside `within` joins to
\* a position of `reached`
RECURSIVE ReachableWithin(_, _)
ReachableWithin(within, reached) ==
    LET more == reached \cup
                {y \in within : \E x \in reached : are_neighbors(x, y)}
    IN  IF more = reached THEN reached ELSE ReachableWithin(within, more)

\* the subgraph that the neighbor relation induces on a set of positions is
\* connected
Connected(positions) ==
    \A a, b \in positions : a # b => b \in ReachableWithin(positions, {a})

\* C6: group closure -- for every list (any order, repeated entries allowed,
\* empty and one-element lists included) are_grouped is true exactly when the
\* set of positions occurring in the list is connected by the neighbor relation.
C6_GroupClosure ==
    call = "are_grouped" => (ret <=> Connected({arg[i] : i \in 1..Len(arg)}))

\* the values of the items returned so far
YieldedValues == [i \in 1..Len(yielded) |-> yielded[i].value]

\* C9: every call of next() returns Some (the walk does not end) and no
\* returned element equals the position the walk was started on.
C9_NeverRevisitsStart ==
    \A i \in 1..Len(yielded) : yielded[i].some /\ yielded[i].value # start.pos

\* C9 witness: the walk from 13 upwards went through the center and out again.
C9_Witness ==
    start = [pos |-> 13, dir |-> 0] /\ YieldedValues = <<4, 0, 1, 7, 19, 37>>

\* C10: path consistency law -- the first element is the neighbor of the start
\* in direction dir, every later element the neighbor of the previous one in
\* that direction, dir keeps its value, curr_pos() is the last element (the
\* start before the first call), and every window of length >= 2 of the start
\* followed by the elements is path consistent.
C10_PathConsistency ==
    LET path == <<start.pos>> \o YieldedValues
    IN  /\ \A i \in 1..Len(yielded) :
              /\ yielded[i].some
              /\ yielded[i].value = neighboring_positions(path[i])[start.dir + 1]
        /\ iter.dir = start.dir
        /\ curr_pos(iter) = path[Len(path)]
        /\ \A i, j \in 1..Len(path) :
              i < j => is_path_consistent(SubSeq(path, i, j))

\* C10 witness: three elements were taken from the last position of ring 2 in
\* direction 1, across the end-of-ring wrap.
C10_Witness ==
    start = [pos |-> 18, dir |-> 1] /\ YieldedValues = <<7, 20, 39>>

\* the positions of ring k
RingPositions(k) ==
    IF k = 0 THEN {0} ELSE (3 * k * (k - 1) + 1)..(3 * (k + 1) * k)

\* C11: is_at_ring_tip(p) is true exactly when p = 0 or, with k = ring(p) >= 1,
\* p - ring_offset(k) is a multiple of k (p = ring_offset(k) + n*k, n in 0..5);
\* every ring k >= 1 has exactly six tips.
C11_RingTips ==
    call = "is_at_ring_tip" =>
        LET k == ring(arg)
            off == IF k = 0 THEN 0 ELSE 3 * k * (k - 1) + 1
        IN  /\ ret <=> (arg = 0 \/ (k >= 1 /\ (arg - off) % k = 0))
            /\ ret <=> (\E n \in 0..5 : arg = off + n * k)
            /\ k >= 1 =>
                 Cardinality({p \in RingPositions(k) : is_at_ring_tip(p)}) = 6

\* C11 witness: 53, the fifth tip of ring 4 (n = 4), was found to be a tip.
C11_Witness ==
    call = "is_at_ring_tip" /\ arg = 53 /\ ret = TRUE

\* C12: for every position p >= 1 the multipliers that pos_to_point applies in
\* total are (3q, q + 2r) for (q, r, s) = spiral_to_cube(p), and the only
\* recursive call, if any, is made on a tip of the ring of p.
C12_PointAgreesWithCube ==
    (call = "pos_to_point" /\ arg >= 1) =>
        LET c == spiral_to_cube(arg)
        IN  /\ ret.xm = 3 * c.q
            /\ ret.ym = c.q + 2 * c.r
            /\ Len(ret.calls) <= 1
            /\ \A i \in 1..Len(ret.calls) :
                  /\ is_at_ring_tip(ret.calls[i])
                  /\ ring(ret.calls[i]) = ring(arg)

====
